---- MODULE Spec2Model ----
\* Worker controller processes of celery (celery/worker/controllers.py):
\* the Mediator, which hands tasks of the bucket queue to a callback, and the
\* PeriodicWorkController, which moves tasks of the hold queue to the bucket
\* queue once their eta has passed.  Each controller is a process of its own
\* (BackgroundProcess.run); the two queues are the only shared state and every
\* queue operation is atomic, so each queue operation is one step.
\* TaskPublisher (celery/messaging.py) is modelled beside them: each caller
\* makes one call of delay_task or delay_task_in_set.
EXTENDS Integers, Sequences, FiniteSets, TLC

\* ---------------------------------------------------------------- bounds
NumTasks == 3          \* number of distinct task messages that may arrive
MaxTime == 3           \* the clock is observed on 0..MaxTime
NumCallers == 2        \* number of callers of the TaskPublisher

Tasks == 1..NumTasks
NoTask == 0            \* Python: the local name `task` is not bound
Times == 0..MaxTime
\* the etas a message may carry: a time of the observed range, or a time
\* later than all of them, a different one for each task
FarEta(t) == MaxTime + t
Etas(t) == Times \cup {FarEta(t)}
NoEntry == [task |-> NoTask, eta |-> 0]
PacingInterval == 1     \* time.sleep(1)

\* values of the TaskPublisher
Callers == 1..NumCallers
NoId == 0              \* task_id=None; gen_unique_id() yields 1, 2, ...
PyNone == "None"       \* part_of_set=None
Absent == "absent"     \* message_data has no key "taskset"
TasksetIds == {"", "ts1"}
EtaNone == [kind |-> "None", at |-> 0]
Datetime(t) == [kind |-> "datetime", at |-> t]
PubEtas == {EtaNone, Datetime(MaxTime)}

VARIABLES
  hold_queue,     \* PeriodicWorkController.hold_queue: sequence of (task, eta)
  bucket_queue,   \* bucket_queue shared by both controllers: sequence of tasks
  now,            \* the wall clock read by datetime.now()
  cpc,            \* position of the PeriodicWorkController process
  centry,         \* its locals (task, eta) of process_hold_queue
  cnow,           \* the value datetime.now() returned in process_hold_queue
  routed,         \* branch process_hold_queue took in this iteration (its log line)
  cslept,         \* time.sleep(1): a time unit has passed since the sleep began
  mpc,            \* position of the Mediator process
  mtask,          \* Mediator.on_iteration's local `task`
  mwaited,        \* bucket_queue.get(timeout=1): the timeout has elapsed
  iter_calls,     \* callback invocations made by the current Mediator iteration
  calls,          \* what the callback has observed: sequence of [task, status]
  enqueued,       \* history: every task put on bucket_queue, in put order
  hwm,            \* history: largest number of hold entries held at one time
  since,          \* history: for each re-deferred task, hold_queue pops since then
  late,           \* history: per task, hold_queue pops it waited through overdue
  entered,        \* history: number of task messages that have arrived
  pub,            \* for each caller that has called: the state of its call
  uid,            \* number of ids gen_unique_id() has handed out
  transport,      \* what Publisher.send() delivered: sequence of [caller, msg]
  task_sent       \* what signals.task_sent.send() was called with: [caller, msg]

pvars == <<pub, uid, transport, task_sent>>

wvars == <<hold_queue, bucket_queue, now, cpc, centry, cnow, routed, cslept,
           mpc, mtask, mwaited, iter_calls, calls, enqueued, hwm, since, late,
           entered>>

vars == <<wvars, pvars>>

cvars == <<cpc, centry, cnow, routed, cslept>>
mvars == <<mpc, mtask, mwaited, iter_calls, calls>>
hvars == <<hwm, since, late, entered>>

\* ---------------------------------------------------------------- helpers
Max(a, b) == IF a >= b THEN a ELSE b

SeqToSet(s) == {s[i] : i \in 1..Len(s)}

HoldTasks == {hold_queue[i].task : i \in 1..Len(hold_queue)}

CalledTasks == {calls[i].task : i \in 1..Len(calls)}

\* entries the controller is responsible for: those at rest in hold_queue plus
\* the one it has popped and not yet put anywhere
HoldSize == Len(hold_queue) + (IF cpc = "route" THEN 1 ELSE 0)

\* task ids already used by a message that entered the worker
Used == HoldTasks \cup SeqToSet(bucket_queue) \cup CalledTasks
          \cup {centry.task, mtask}

Init ==
  /\ hold_queue = <<>>
  /\ bucket_queue = <<>>
  /\ now = 0
  /\ cpc = "periodic"
  /\ centry = NoEntry
  /\ cnow = 0
  /\ routed = "none"
  /\ cslept = FALSE
  /\ mpc = "get"
  /\ mtask = NoTask
  /\ mwaited = FALSE
  /\ iter_calls = 0
  /\ calls = <<>>
  /\ enqueued = <<>>
  /\ hwm = 0
  /\ entered = 0
  /\ since = <<>>
  /\ late = [t \in Tasks |-> 0]
  /\ pub = <<>>
  /\ uid = 0
  /\ transport = <<>>
  /\ task_sent = <<>>

\* ---------------------------------------------------------------- environment
\* Time passes.  A sleeping controller and a Mediator blocked in get() see
\* their wait elapse.  The clock value MaxTime stands for every time from
\* MaxTime on that is earlier than the etas above MaxTime, so a comparison of
\* the clock against an eta has the outcome it has at such a time.
Tick ==
  /\ now' = IF now < MaxTime THEN now + 1 ELSE now
  /\ cslept' = IF cpc = "sleep" THEN TRUE ELSE cslept
  /\ mwaited' = IF mpc = "get" THEN TRUE ELSE mwaited
  /\ UNCHANGED <<hold_queue, bucket_queue, cpc, centry, cnow, routed,
                 mpc, mtask, iter_calls, calls, enqueued, hvars>>
  /\ UNCHANGED pvars

\* The consumer side delivers a task message: a message whose eta is in the
\* future becomes a (task, eta) entry of the hold queue, any other message
\* goes to the bucket queue (a message without eta behaves as one whose eta
\* has passed).  Task ids are unique; they are numbered in arrival order.
Ingest ==
  \E t \in Tasks \ Used : \E e \in Etas(t) :
    /\ \A u \in Tasks \ Used : t <= u
    /\ IF e > now
         THEN /\ hold_queue' = Append(hold_queue, [task |-> t, eta |-> e])
              /\ hwm' = Max(hwm, HoldSize + 1)
              /\ UNCHANGED <<bucket_queue, enqueued>>
         ELSE /\ bucket_queue' = Append(bucket_queue, t)
              /\ enqueued' = Append(enqueued, t)
              /\ UNCHANGED <<hold_queue, hwm>>
    /\ entered' = entered + 1
    /\ UNCHANGED <<now, cvars, mvars, since, late>>
    /\ UNCHANGED pvars

\* ---------------------------------------------------------------- PeriodicWorkController
\* default_periodic_status_backend.run_periodic_tasks() returns
PeriodicReturn ==
  /\ cpc = "periodic"
  /\ cpc' = "hold"
  /\ UNCHANGED <<hold_queue, bucket_queue, now, centry, cnow, routed, cslept,
                 mvars, enqueued, hvars>>
  /\ UNCHANGED pvars

\* the periodic tasks run, and raise, after the hold queue has been read
PeriodicRaise_late ==
  /\ cpc \in {"periodic", "route"}
  /\ cpc' = "crashed"
  /\ UNCHANGED <<hold_queue, bucket_queue, now, centry, cnow, routed, cslept,
                 mvars, enqueued, hvars>>
  /\ UNCHANGED pvars

\* ... or raises: on_iteration does not catch it and run() ends
PeriodicRaise ==
  /\ cpc = "periodic"
  /\ cpc' = "crashed"
  /\ UNCHANGED <<hold_queue, bucket_queue, now, centry, cnow, routed, cslept,
                 mvars, enqueued, hvars>>
  /\ UNCHANGED pvars

run_periodic_tasks == PeriodicReturn \/ PeriodicRaise

\* The first half of process_hold_queue, lines 115-121, taking the k-th entry
\* of a non-empty hold queue.
HoldGetAt(k) ==
  /\ cpc = "hold"
  /\ IF hold_queue = <<>>
       THEN /\ routed' = "empty"
            /\ cpc' = "sleep"
            /\ cslept' = FALSE
            /\ UNCHANGED <<hold_queue, centry, since, late>>
       ELSE /\ centry' = hold_queue[k]
            /\ hold_queue' = [i \in 1..(Len(hold_queue) - 1) |->
                 IF i < k THEN hold_queue[i] ELSE hold_queue[i + 1]]
            /\ cpc' = "route"
            /\ since' = [t \in DOMAIN since |->
                 IF t \in HoldTasks THEN since[t] + 1 ELSE since[t]]
            /\ late' = [t \in Tasks |->
                 IF \E i \in 1..Len(hold_queue) :
                      /\ i # k
                      /\ hold_queue[i].task = t
                      /\ now >= hold_queue[i].eta
                   THEN late[t] + 1 ELSE late[t]]
            /\ UNCHANGED <<routed, cslept>>
  /\ UNCHANGED <<bucket_queue, now, cnow, mvars, enqueued, hwm, entered>>
  /\ UNCHANGED pvars

\* a get that yields the entry put last
HoldGet_last == HoldGetAt(Len(hold_queue))

\* a get that waits for an entry (get() in place of get_nowait())
HoldGet_blocking == hold_queue # <<>> /\ HoldGetAt(1)

\* task, eta = self.hold_queue.get_nowait(): QueueEmpty -> return; else the
\* entry put first is removed and bound to (task, eta)
HoldGet == HoldGetAt(1)

\* The second half of process_hold_queue, lines 122-131.  `ready` is the
\* outcome of the comparison, bq_ready the bucket queue and hq_ready the hold
\* queue the first branch leaves, hq_wait the hold queue the else branch leaves.
HoldRouteStep(ready, bq_ready, hq_ready, hq_wait) ==
  /\ cpc = "route"
  /\ cnow' = now
  /\ IF ready
       THEN /\ bucket_queue' = bq_ready
            /\ hold_queue' = hq_ready
            /\ enqueued' = Append(enqueued, centry.task)
            /\ routed' = "promoted"
            /\ since' = [t \in DOMAIN since \ {centry.task} |-> since[t]]
       ELSE /\ hold_queue' = hq_wait
            /\ routed' = "deferred"
            /\ since' = [t \in DOMAIN since \cup {centry.task} |->
                 IF t = centry.task THEN 0 ELSE since[t]]
            /\ UNCHANGED <<bucket_queue, enqueued>>
  /\ cpc' = "sleep"
  /\ cslept' = FALSE
  /\ UNCHANGED <<now, centry, mvars, hwm, late, entered>>
  /\ UNCHANGED pvars

\* a comparison that lets a task through one pacing interval early
HoldRoute_early ==
  HoldRouteStep(now + PacingInterval >= centry.eta,
                Append(bucket_queue, centry.task),
                hold_queue,
                Append(hold_queue, centry))

\* a re-deferral that puts the entry back where it was taken from
HoldRoute_front ==
  HoldRouteStep(now >= centry.eta,
                Append(bucket_queue, centry.task),
                hold_queue,
                <<centry>> \o hold_queue)

\* a re-deferral that gives the entry a new eta
HoldRoute_neweta ==
  HoldRouteStep(now >= centry.eta,
                Append(bucket_queue, centry.task),
                hold_queue,
                Append(hold_queue, [centry EXCEPT !.eta = now + PacingInterval]))

\* a promotion that also puts the entry back (the `else:` is lost)
HoldRoute_keeps ==
  HoldRouteStep(now >= centry.eta,
                Append(bucket_queue, centry.task),
                Append(hold_queue, centry),
                Append(hold_queue, centry))

\* a process_hold_queue that loops until the hold queue is empty: after the
\* put it reads the hold queue again
HoldRoute_drain ==
  /\ cpc = "route"
  /\ cnow' = now
  /\ IF now >= centry.eta
       THEN /\ bucket_queue' = Append(bucket_queue, centry.task)
            /\ enqueued' = Append(enqueued, centry.task)
            /\ routed' = "promoted"
            /\ since' = [t \in DOMAIN since \ {centry.task} |-> since[t]]
            /\ UNCHANGED hold_queue
       ELSE /\ hold_queue' = Append(hold_queue, centry)
            /\ routed' = "deferred"
            /\ since' = [t \in DOMAIN since \cup {centry.task} |->
                 IF t = centry.task THEN 0 ELSE since[t]]
            /\ UNCHANGED <<bucket_queue, enqueued>>
  /\ cpc' = "hold"
  /\ UNCHANGED <<now, centry, cslept, mvars, hwm, late, entered>>
  /\ UNCHANGED pvars

\* if datetime.now() >= eta: bucket_queue.put(task)
\* else: hold_queue.put((task, eta))
HoldRoute ==
  HoldRouteStep(now >= centry.eta,
                Append(bucket_queue, centry.task),
                hold_queue,
                Append(hold_queue, centry))

process_hold_queue == HoldGet \/ HoldRoute

\* time.sleep(1) returns and run() starts the next on_iteration
Sleep ==
  /\ cpc = "sleep"
  /\ cslept
  /\ cpc' = "periodic"
  /\ centry' = NoEntry
  /\ cnow' = 0
  /\ routed' = "none"
  /\ cslept' = FALSE
  /\ late' = [t \in Tasks |-> IF t = centry.task THEN 0 ELSE late[t]]
  /\ UNCHANGED <<hold_queue, bucket_queue, now, mvars, enqueued, hwm, since,
                 entered>>
  /\ UNCHANGED pvars

PeriodicWorkController_on_iteration ==
  run_periodic_tasks \/ process_hold_queue \/ Sleep

\* ---------------------------------------------------------------- Mediator
\* bucket_queue.get(timeout=1) returns the k-th task of the bucket queue
MedGetAt(k) ==
  /\ mpc = "get"
  /\ bucket_queue # <<>>
  /\ mtask' = bucket_queue[k]
  /\ bucket_queue' = [i \in 1..(Len(bucket_queue) - 1) |->
       IF i < k THEN bucket_queue[i] ELSE bucket_queue[i + 1]]
  /\ mpc' = "callback"
  /\ mwaited' = FALSE
  /\ iter_calls' = 0
  /\ UNCHANGED <<hold_queue, now, cvars, calls, enqueued, hvars>>
  /\ UNCHANGED pvars

\* a get that yields the task put last
MedGet_last == MedGetAt(Len(bucket_queue))

\* task = self.bucket_queue.get(timeout=1) returns the task put first
MedGet == MedGetAt(1)

\* the callback is run although get() raised QueueEmpty
MedEmpty_calls ==
  /\ mpc = "get"
  /\ bucket_queue = <<>>
  /\ mwaited
  /\ mtask' = NoTask
  /\ calls' = Append(calls, [task |-> NoTask, status |-> "running"])
  /\ iter_calls' = 1
  /\ mpc' = "running"
  /\ mwaited' = FALSE
  /\ UNCHANGED <<hold_queue, bucket_queue, now, cvars, enqueued, hvars>>
  /\ UNCHANGED pvars

\* QueueEmpty is not caught
MedEmpty_raises ==
  /\ mpc = "get"
  /\ bucket_queue = <<>>
  /\ mwaited
  /\ mtask' = NoTask
  /\ mpc' = "crashed"
  /\ mwaited' = FALSE
  /\ iter_calls' = 0
  /\ UNCHANGED <<hold_queue, bucket_queue, now, cvars, calls, enqueued, hvars>>
  /\ UNCHANGED pvars

\* ... or raises QueueEmpty after the timeout: `pass`, the iteration ends
MedEmpty ==
  /\ mpc = "get"
  /\ bucket_queue = <<>>
  /\ mwaited
  /\ mtask' = NoTask
  /\ mpc' = "get"
  /\ mwaited' = FALSE
  /\ iter_calls' = 0
  /\ UNCHANGED <<hold_queue, bucket_queue, now, cvars, calls, enqueued, hvars>>
  /\ UNCHANGED pvars

\* else: self.callback(task) is entered
CallbackStart ==
  /\ mpc = "callback"
  /\ calls' = Append(calls, [task |-> mtask, status |-> "running"])
  /\ iter_calls' = iter_calls + 1
  /\ mpc' = "running"
  /\ UNCHANGED <<hold_queue, bucket_queue, now, cvars, mtask, mwaited,
                 enqueued, hvars>>
  /\ UNCHANGED pvars

\* the callback returns: on_iteration returns, run() starts the next one
CallbackReturn ==
  /\ mpc = "running"
  /\ calls' = [calls EXCEPT ![Len(calls)].status = "returned"]
  /\ mpc' = "get"
  /\ mwaited' = FALSE
  /\ UNCHANGED <<hold_queue, bucket_queue, now, cvars, mtask, iter_calls,
                 enqueued, hvars>>
  /\ UNCHANGED pvars

\* the error of the callback is swallowed and the loop goes on
CallbackRaise_caught ==
  /\ mpc = "running"
  /\ calls' = [calls EXCEPT ![Len(calls)].status = "raised"]
  /\ mpc' = "get"
  /\ mwaited' = FALSE
  /\ UNCHANGED <<hold_queue, bucket_queue, now, cvars, mtask, iter_calls,
                 enqueued, hvars>>
  /\ UNCHANGED pvars

\* the callback raises: nothing catches it, run() ends
CallbackRaise ==
  /\ mpc = "running"
  /\ calls' = [calls EXCEPT ![Len(calls)].status = "raised"]
  /\ mpc' = "crashed"
  /\ UNCHANGED <<hold_queue, bucket_queue, now, cvars, mtask, mwaited,
                 iter_calls, enqueued, hvars>>
  /\ UNCHANGED pvars

callback == CallbackStart \/ CallbackReturn \/ CallbackRaise

Mediator_on_iteration == MedGet \/ MedEmpty \/ callback

\* ---------------------------------------------------------------- TaskPublisher
\* Python truth value of a task_id / part_of_set argument
Truthy(x) == x \notin {PyNone, ""}

\* datetime.isoformat()
isoformat(d) == [kind |-> "isoformat", at |-> d.at]

\* eta = eta and eta.isoformat()
NormEta(eta) == IF eta.kind = "None" THEN eta ELSE isoformat(eta)

\* a message built before the id is generated
message_data_noid(task_id, part_of_set, eta) ==
  [id |-> NoId,
   taskset |-> IF Truthy(part_of_set) THEN part_of_set ELSE Absent,
   eta |-> NormEta(eta),
   retries |-> 0]

\* message_data as _delay_task builds it, lines 50-60
message_data(task_id, part_of_set, eta) ==
  [id |-> task_id,
   taskset |-> IF Truthy(part_of_set) THEN part_of_set ELSE Absent,
   eta |-> NormEta(eta),
   retries |-> 0]

\* _delay_task up to the call of self.send, lines 46-60: the id is
\* generated (no task_id is passed), the message is built
delay_task_build(c, op, part_of_set, eta, msg) ==
  /\ c \notin DOMAIN pub
  /\ uid' = uid + 1
  /\ pub' = [d \in DOMAIN pub \cup {c} |->
       IF d = c
         THEN [pc |-> "send", op |-> op, taskset_id |-> part_of_set,
               eta |-> eta, task_id |-> uid + 1, msg |-> msg,
               sends |-> 0, send_error |-> FALSE, result |-> NoId]
         ELSE pub[d]]
  /\ UNCHANGED <<transport, task_sent, wvars>>

\* delay_task(task_name, task_args, task_kwargs, **kwargs)
delay_task(c) ==
  \E eta \in PubEtas :
    delay_task_build(c, "delay_task", PyNone, eta,
                     message_data(uid + 1, PyNone, eta))

\* delay_task_in_set(taskset_id, task_name, task_args, task_kwargs, **kwargs)
delay_task_in_set(c) ==
  \E taskset_id \in TasksetIds, eta \in PubEtas :
    delay_task_build(c, "delay_task_in_set", taskset_id, eta,
                     message_data(uid + 1, taskset_id, eta))

\* self.send(message_data, ...) returns
SendOk(c) ==
  /\ c \in DOMAIN pub
  /\ pub[c].pc = "send"
  /\ transport' = Append(transport, [caller |-> c, msg |-> pub[c].msg])
  /\ pub' = [pub EXCEPT ![c].pc = "notify", ![c].sends = @ + 1]
  /\ UNCHANGED <<uid, task_sent, wvars>>

\* the error of self.send is swallowed and the call goes on
SendRaise_swallowed(c) ==
  /\ c \in DOMAIN pub
  /\ pub[c].pc = "send"
  /\ pub' = [pub EXCEPT ![c].pc = "notify", ![c].sends = @ + 1,
                         ![c].send_error = TRUE]
  /\ UNCHANGED <<uid, transport, task_sent, wvars>>

\* self.send raises: _delay_task has no handler, the caller gets the error
SendRaise(c) ==
  /\ c \in DOMAIN pub
  /\ pub[c].pc = "send"
  /\ pub' = [pub EXCEPT ![c].pc = "raised", ![c].sends = @ + 1,
                         ![c].send_error = TRUE]
  /\ UNCHANGED <<uid, transport, task_sent, wvars>>

\* signals.task_sent.send(sender=task_name, **message_data) returns;
\* return task_id
NotifyOk(c) ==
  /\ c \in DOMAIN pub
  /\ pub[c].pc = "notify"
  /\ task_sent' = Append(task_sent, [caller |-> c, msg |-> pub[c].msg])
  /\ pub' = [pub EXCEPT ![c].pc = "done", ![c].result = pub[c].task_id]
  /\ UNCHANGED <<uid, transport, wvars>>

\* a receiver of task_sent raises: Signal.send lets the error through and
\* _delay_task has no handler, so the caller gets the error, not the id
NotifyRaise(c) ==
  /\ c \in DOMAIN pub
  /\ pub[c].pc = "notify"
  /\ task_sent' = Append(task_sent, [caller |-> c, msg |-> pub[c].msg])
  /\ pub' = [pub EXCEPT ![c].pc = "raised"]
  /\ UNCHANGED <<uid, transport, wvars>>

NextPub ==
  \/ \E c \in Callers : delay_task(c)
  \/ \E c \in Callers : delay_task_in_set(c)
  \/ \E c \in Callers : SendOk(c)
  \/ \E c \in Callers : SendRaise(c)
  \/ \E c \in Callers : NotifyOk(c)
  \/ \E c \in Callers : NotifyRaise(c)

SpecPub == Init /\ [][NextPub]_vars

\* ---------------------------------------------------------------- specification
Next ==
  \/ Tick
  \/ Ingest
  \/ PeriodicWorkController_on_iteration
  \/ Mediator_on_iteration

Spec == Init /\ [][Next]_vars

\* BackgroundProcess.run of each loop while on_iteration returns: the periodic
\* backend and the callback return without error and nobody calls stop().
PeriodicWorkController_run == PeriodicReturn \/ process_hold_queue \/ Sleep

Mediator_run == MedGet \/ MedEmpty \/ CallbackStart \/ CallbackReturn

NextLive == Tick \/ Ingest \/ PeriodicWorkController_run \/ Mediator_run

\* Time advances and each loop's thread is scheduled: a step of a loop that
\* stays possible is eventually taken.  Nothing is assumed of the arrivals.
Fairness ==
  /\ WF_vars(Tick)
  /\ WF_vars(PeriodicWorkController_run)
  /\ WF_vars(Mediator_run)

SpecLive == Init /\ [][NextLive]_vars /\ Fairness

\* ---------------------------------------------------------------- stop()
\* a stop() that lets the controller finish what it holds: the entry it has
\* taken from the hold queue is put back before the process ends
PeriodicWorkController_stop_flush ==
  /\ cpc \notin {"stopped", "crashed"}
  /\ cpc' = "stopped"
  /\ hold_queue' = IF cpc = "route" THEN Append(hold_queue, centry)
                                    ELSE hold_queue
  /\ UNCHANGED <<bucket_queue, now, centry, cnow, routed, cslept,
                 mvars, enqueued, hvars>>
  /\ UNCHANGED pvars

\* stop() of the controller: self.terminate() ends the process wherever it
\* is in its iteration
PeriodicWorkController_stop ==
  /\ cpc \notin {"stopped", "crashed"}
  /\ cpc' = "stopped"
  /\ UNCHANGED <<hold_queue, bucket_queue, now, centry, cnow, routed, cslept,
                 mvars, enqueued, hvars>>
  /\ UNCHANGED pvars

\* stop() of the Mediator
Mediator_stop ==
  /\ mpc \notin {"stopped", "crashed"}
  /\ mpc' = "stopped"
  /\ UNCHANGED <<hold_queue, bucket_queue, now, cvars, mtask, mwaited,
                 iter_calls, calls, enqueued, hvars>>
  /\ UNCHANGED pvars

stop == PeriodicWorkController_stop \/ Mediator_stop

NextStop == Next \/ stop

SpecStop == Init /\ [][NextStop]_vars

TypeOK ==
  /\ now \in Times
  /\ cpc \in {"periodic", "hold", "route", "sleep", "crashed", "stopped"}
  /\ mpc \in {"get", "callback", "running", "crashed", "stopped"}
  /\ routed \in {"none", "empty", "promoted", "deferred"}
  /\ mtask \in Tasks \cup {NoTask}
  /\ hwm \in 0..NumTasks
  /\ entered \in 0..NumTasks

\* ---------------------------------------------------------------- properties
AllFuture ==
  /\ centry.eta > now
  /\ \A i \in 1..Len(hold_queue) : hold_queue[i].eta > now

DistinctEtas ==
  /\ \A i \in 1..Len(hold_queue) : hold_queue[i].eta # centry.eta
  /\ \A i, j \in 1..Len(hold_queue) :
       i # j => hold_queue[i].eta # hold_queue[j].eta

\* C1: process_hold_queue never puts a task on the bucket queue at a time
\* earlier than the eta of its hold entry: the time it read when it promoted
\* the entry is at or after the entry's eta.
C1_NoPromotionBeforeEta ==
  routed = "promoted" => cnow >= centry.eta

\* a task that entered the hold queue with a future eta has been promoted
C1_Witness ==
  /\ routed = "promoted"
  /\ centry.eta >= 2
  /\ centry.task = Head(Append(bucket_queue, NoTask))

\* C2 as stated: every promotion happens no later than
\* eta + hold_queue_size * pacing_interval, even when hold_queue_size is read
\* as the largest size the hold queue ever had.
C2_PromotedByEtaPlusSize ==
  routed = "promoted" => cnow <= centry.eta + hwm * PacingInterval

\* C2 amended: an entry is promoted at its first examination at or after its
\* eta (an entry is only re-deferred before its eta), and an entry waiting
\* overdue at position i has seen at most N - i pops since its eta passed,
\* N being the largest number of entries the hold queue has held: its own
\* pop is among the first N pops after its eta.
C2_PromotedWithinSizePops ==
  /\ \A i \in 1..Len(hold_queue) : late[hold_queue[i].task] + i <= hwm
  /\ cpc = "route" => late[centry.task] + 1 <= hwm
  /\ routed = "deferred" => cnow < centry.eta

\* an entry that entered with a future eta and waited overdue while another
\* entry was popped has been promoted
C2_Witness ==
  /\ routed = "promoted"
  /\ centry.eta >= 1
  /\ late[centry.task] >= 1
  /\ hold_queue # <<>>

\* C3 as stated: with three future entries and k far-future ones in the hold
\* queue, an entry is popped again within k + 1 iterations of its previous
\* examination.
C3_ReexaminedWithinKPlusOne ==
  (/\ cpc = "route"
   /\ centry.task \in DOMAIN since
   /\ HoldSize = NumTasks
   /\ HoldSize >= 3
   /\ AllFuture
   /\ DistinctEtas)
    => since[centry.task] <= (HoldSize - 3) + 1

\* C3 amended: an entry is popped again within N iterations of its previous
\* examination, N being the number of entries of the hold queue (k + 3 in
\* the scenario; the largest number held in general): a re-deferred entry at
\* position i has seen at most N - i pops since it was put back.
C3_ReexaminedWithinSize ==
  /\ \A i \in 1..Len(hold_queue) :
       hold_queue[i].task \in DOMAIN since
         => since[hold_queue[i].task] + i <= hwm
  /\ (cpc = "route" /\ centry.task \in DOMAIN since)
       => since[centry.task] <= hwm

\* all entries are in the future, and one of them is popped again as the
\* third pop after its previous examination
C3_Witness ==
  /\ cpc = "route"
  /\ HoldSize = 3
  /\ AllFuture
  /\ DistinctEtas
  /\ centry.task \in DOMAIN since
  /\ since[centry.task] = 3

CalledSeq == [i \in 1..Len(calls) |-> calls[i].task]

IsPrefix(p, q) ==
  /\ Len(p) <= Len(q)
  /\ \A i \in 1..Len(p) : p[i] = q[i]

\* the step in which get_nowait() takes an entry takes the first one only
PopsHead ==
  (cpc = "hold" /\ cpc' = "route")
    => (centry' = Head(hold_queue) /\ hold_queue' = Tail(hold_queue))

\* C4: a Mediator iteration invokes the callback at most once, only with a
\* task it removed from the bucket queue; an iteration that found the bucket
\* queue empty invokes it zero times.
C4_CallbackOnlyWithRemovedTask ==
  /\ iter_calls <= 1
  /\ iter_calls = 1 => (mtask # NoTask /\ calls[Len(calls)].task = mtask)
  /\ \A i \in 1..Len(calls) :
       /\ calls[i].task \in SeqToSet(enqueued)
       /\ calls[i].task \notin SeqToSet(bucket_queue)
  /\ Len(calls) <= Len(enqueued) - Len(bucket_queue)

\* after a task was dispatched, an iteration found the bucket queue empty
\* and ended without a call
C4_Witness ==
  /\ mpc = "get"
  /\ Len(calls) >= 1
  /\ mtask = NoTask
  /\ iter_calls = 0

\* C5: once the callback has raised, the Mediator loop is over (no later
\* iteration, no later call) and the task it was dispatching is in neither
\* queue.
C5_CallbackRaiseEndsLoop ==
  \A i \in 1..Len(calls) :
    calls[i].status = "raised"
      => /\ mpc = "crashed"
         /\ i = Len(calls)
         /\ mtask = calls[i].task
         /\ iter_calls = 1
         /\ calls[i].task \notin SeqToSet(bucket_queue)
         /\ calls[i].task \notin HoldTasks

\* the callback raised while other tasks wait in both queues
C5_Witness ==
  /\ mpc = "crashed"
  /\ calls[Len(calls)].status = "raised"
  /\ bucket_queue # <<>>
  /\ hold_queue # <<>>

\* C6: re-deferral.  When the popped entry's eta is still ahead, the step
\* that routes it appends that very pair to the hold queue and leaves the
\* bucket queue alone; the pop before it took the head only, so the hold
\* queue holds the same entries as before, the pair now at the tail.
C6_RedeferralKeepsEntry ==
  [][/\ PopsHead
     /\ (cpc = "route" /\ cpc' # "route" /\ now < centry.eta)
          => /\ hold_queue' = Append(hold_queue, centry)
             /\ bucket_queue' = bucket_queue
             /\ routed' = "deferred"
             /\ centry' = centry]_vars

\* an entry was put back behind another entry
C6_Witness ==
  /\ routed = "deferred"
  /\ cnow < centry.eta
  /\ Len(hold_queue) >= 2
  /\ hold_queue[Len(hold_queue)] = centry
  /\ bucket_queue # <<>>

\* C7: promotion.  When the popped entry's eta has been reached (now = eta
\* included), the step that routes it appends exactly its task to the bucket
\* queue and leaves the hold queue, from which the pop took only that entry,
\* alone.
C7_PromotionMovesTask ==
  [][/\ PopsHead
     /\ (cpc = "route" /\ cpc' # "route" /\ now >= centry.eta)
          => /\ bucket_queue' = Append(bucket_queue, centry.task)
             /\ hold_queue' = hold_queue
             /\ centry.task \notin {hold_queue'[i].task : i \in 1..Len(hold_queue')}
             /\ routed' = "promoted"]_vars

\* an entry was promoted exactly at its eta while another entry stays held
C7_Witness ==
  /\ routed = "promoted"
  /\ centry.eta >= 1
  /\ cnow = centry.eta
  /\ hold_queue # <<>>
  /\ bucket_queue # <<>>
  /\ bucket_queue[Len(bucket_queue)] = centry.task

\* C8: the callback gets the tasks in the order they were put on the bucket
\* queue, and a call starts only when every earlier call has returned.
C8_DispatchInQueueOrder ==
  /\ enqueued = CalledSeq \o (IF mpc = "callback" THEN <<mtask>> ELSE <<>>)
                          \o bucket_queue
  /\ \A i \in 1..(Len(calls) - 1) : calls[i].status = "returned"
  /\ mpc = "running" <=> (calls # <<>> /\ calls[Len(calls)].status = "running")

\* a second call is running, its task was promoted after the first task was
\* put, and a third task waits
C8_Witness ==
  /\ Len(calls) = 2
  /\ calls[2].status = "running"
  /\ bucket_queue # <<>>

C10_CrashKeepsQueues ==
  [][/\ (cpc # "crashed" /\ cpc' = "crashed")
          => /\ cpc = "periodic"
             /\ routed = "none"
             /\ centry = NoEntry
             /\ hold_queue' = hold_queue
             /\ bucket_queue' = bucket_queue
     /\ (mpc # "crashed" /\ mpc' = "crashed")
          => /\ hold_queue' = hold_queue
             /\ bucket_queue' = bucket_queue
     /\ cpc = "crashed" => (cpc' = "crashed" /\ IsPrefix(hold_queue, hold_queue'))
     /\ mpc = "crashed" => (mpc' = "crashed" /\ IsPrefix(bucket_queue, bucket_queue'))]_vars

\* both loops have ended with an error and tasks rest in both queues
C10_Witness ==
  /\ cpc = "crashed"
  /\ mpc = "crashed"
  /\ hold_queue # <<>>
  /\ bucket_queue # <<>>

\* ---------------------------------------------------------------- properties of the TaskPublisher
SentBy(c) == {i \in 1..Len(transport) : transport[i].caller = c}

NotifiedBy(c) == {i \in 1..Len(task_sent) : task_sent[i].caller = c}

\* C11: a call whose transport send succeeded returns the task_id to its
\* caller, also when a receiver of the task_sent notification fails.
C11_SentCallReturnsId ==
  \A c \in DOMAIN pub :
    (pub[c].pc \in {"done", "raised"} /\ ~pub[c].send_error)
      => (pub[c].pc = "done" /\ pub[c].result = pub[c].task_id)

\* C12: when the transport send raises, the call ends with that error after
\* one send attempt: no task_id is returned, nothing reached the transport
\* and no task_sent notification is made for the call.
C12_SendErrorPropagates ==
  \A c \in DOMAIN pub :
    pub[c].send_error
      => /\ pub[c].pc = "raised"
         /\ pub[c].sends = 1
         /\ pub[c].result = NoId
         /\ SentBy(c) = {}
         /\ NotifiedBy(c) = {}

\* one call ended with the error of the send while another call went through
C12_Witness ==
  \E c, d \in DOMAIN pub :
    /\ pub[c].send_error
    /\ pub[c].pc = "raised"
    /\ pub[d].pc = "done"

\* C13: a call of delay_task without eta that returns has returned a
\* non-empty task_id, which is the id of the one message it handed to the
\* transport and of the one task_sent notification made for it, both with
\* the same message fields; the notification is never made before the send.
C13_ReturnedIdIsSentAndNotifiedOnce ==
  /\ \A c \in DOMAIN pub :
       (pub[c].pc = "done" /\ pub[c].op = "delay_task" /\ pub[c].eta = EtaNone)
         => /\ pub[c].result # NoId
            /\ pub[c].sends = 1
            /\ Cardinality(SentBy(c)) = 1
            /\ Cardinality(NotifiedBy(c)) = 1
            /\ \A i \in SentBy(c) : \A j \in NotifiedBy(c) :
                 /\ transport[i].msg.id = pub[c].result
                 /\ task_sent[j].msg = transport[i].msg
                 /\ transport[i].msg.eta = EtaNone
  /\ \A c \in DOMAIN pub : NotifiedBy(c) # {} => SentBy(c) # {}

\* a call of delay_task without eta has returned
C13_Witness ==
  \E c \in DOMAIN pub :
    /\ pub[c].pc = "done"
    /\ pub[c].op = "delay_task"
    /\ pub[c].eta = EtaNone
    /\ pub[c].result # NoId

\* C14: two calls of delay_task_in_set with the same taskset_id build
\* messages that both carry that taskset_id and have distinct task ids; a
\* message of delay_task has no taskset field.
C14_TasksetCarried ==
  /\ \A c, d \in DOMAIN pub :
       (/\ c # d
        /\ pub[c].op = "delay_task_in_set"
        /\ pub[d].op = "delay_task_in_set"
        /\ pub[c].taskset_id = pub[d].taskset_id)
         => /\ pub[c].msg.taskset = pub[c].taskset_id
            /\ pub[d].msg.taskset = pub[d].taskset_id
            /\ pub[c].msg.id # pub[d].msg.id
  /\ \A c \in DOMAIN pub :
       pub[c].op = "delay_task" => pub[c].msg.taskset = Absent

\* ---------------------------------------------------------------- properties of the loops
\* C15: the controller never waits for anything but its sleep: when
\* run_periodic_tasks can return, each step of an iteration can be taken
\* at once, with the hold queue empty or not; an iteration that found the
\* hold queue empty took nothing; the sleep ends once a time unit has passed.
C15_ControllerNeverBlocks ==
  /\ cpc = "periodic" => ENABLED PeriodicReturn
  /\ cpc = "hold" => ENABLED HoldGet
  /\ cpc = "route" => ENABLED HoldRoute
  /\ (cpc = "sleep" /\ cslept) => ENABLED Sleep
  /\ (cpc = "sleep" /\ routed = "empty") => centry = NoEntry

\* an iteration found the hold queue empty and reached its sleep, while a
\* task waits in the bucket queue
C15_Witness ==
  /\ cpc = "sleep"
  /\ routed = "empty"
  /\ hold_queue = <<>>
  /\ bucket_queue # <<>>

\* C16: with the controller loop scheduled fairly and neither failure nor
\* stop, every entry that is in the hold queue is eventually popped and
\* checked by process_hold_queue, whatever arrives in the meantime.
C16_EveryEntryReexamined ==
  \A t \in Tasks :
    (t \in HoldTasks) ~> (cpc = "route" /\ centry.task = t)

\* an entry that was re-deferred before is examined again while two other
\* entries wait in the hold queue
C16_Witness ==
  /\ cpc = "route"
  /\ centry.task \in DOMAIN since
  /\ Len(hold_queue) >= 2

\* C17: the controller's steps come in the order run_periodic_tasks, hold
\* queue read, routing, sleep, each once per iteration: the hold queue is
\* read only after the periodic call of the same iteration, an entry leaves
\* the hold queue only in that read and only one at a time, the entry read
\* is put on exactly one queue and the iteration then sleeps, and the next
\* periodic call follows the sleep, whatever the size of the hold queue.
C17_StepsInOrder ==
  [][ /\ cpc' # cpc =>
           \/ cpc = "periodic" /\ cpc' \in {"hold", "crashed"}
           \/ cpc = "hold" /\ cpc' \in {"route", "sleep"}
           \/ cpc = "route" /\ cpc' = "sleep"
           \/ cpc = "sleep" /\ cpc' = "periodic"
      /\ Len(hold_queue') < Len(hold_queue) =>
           /\ cpc = "hold" /\ cpc' = "route"
           /\ Len(hold_queue') = Len(hold_queue) - 1
      /\ (cpc = "hold" /\ cpc' = "sleep") =>
           /\ hold_queue = <<>>
           /\ UNCHANGED <<hold_queue, bucket_queue>>
      /\ (cpc = "route" /\ cpc' # cpc) =>
           \/ /\ bucket_queue' = Append(bucket_queue, centry.task)
              /\ UNCHANGED hold_queue
           \/ /\ hold_queue' = Append(hold_queue, centry)
              /\ UNCHANGED bucket_queue
      /\ (routed' # routed /\ routed' \in {"promoted", "deferred"}) =>
           routed = "none"
      /\ (cpc \in {"periodic", "sleep"} /\ cpc' # cpc) =>
           UNCHANGED <<hold_queue, bucket_queue>>
    ]_vars

\* an iteration has promoted one entry and sleeps although another entry
\* whose eta has passed waits in the hold queue
C17_Witness ==
  /\ cpc = "sleep"
  /\ routed = "promoted"
  /\ \E i \in 1..Len(hold_queue) : now >= hold_queue[i].eta

Places ==
  [i \in 1..Len(hold_queue) |-> hold_queue[i].task]
    \o (IF cpc = "route" THEN <<centry.task>> ELSE <<>>)
    \o bucket_queue
    \o (IF mpc = "callback" THEN <<mtask>> ELSE <<>>)
    \o CalledSeq

\* C19: every task that has arrived is in exactly one place: the hold
\* queue, the bucket queue, the controller's hands, the Mediator's hands, or
\* the callback's record; none is in two places, none is missing, none was
\* handed to the callback twice.  (Tasks arrive numbered 1, 2, ...)
C19_TaskConservation ==
  /\ Len(Places) = entered
  /\ SeqToSet(Places) = 1..entered

\* three tasks in three places: one in the controller's hands, one in the
\* bucket queue, one in the Mediator's hands
C19_Witness ==
  /\ cpc = "route"
  /\ bucket_queue # <<>>
  /\ mpc = "callback"
  /\ entered = 3

\* C20: with both loops and the clock scheduled fairly, a periodic backend
\* and a callback that return, and no stop, every task that is in the hold
\* queue with an eta the clock reaches is eventually handed to the callback,
\* and when the callback is entered with it the clock has reached its eta.
C20_HeldTaskEventuallyCalled ==
  \A t \in Tasks :
    /\ (\E e \in 1..MaxTime : [task |-> t, eta |-> e] \in SeqToSet(hold_queue))
         ~> (t \in CalledTasks)
    /\ [](\A e \in 1..MaxTime :
           [task |-> t, eta |-> e] \in SeqToSet(hold_queue)
             => [](t \in CalledTasks => now >= e))

\* a task that waited in the hold queue for an eta in the future has been
\* promoted and handed to the callback, which has returned, while another
\* entry still waits in the hold queue
C20_Witness ==
  /\ cpc = "sleep"
  /\ routed = "promoted"
  /\ centry.eta \in 1..MaxTime
  /\ now >= centry.eta
  /\ \E i \in 1..Len(calls) :
       calls[i] = [task |-> centry.task, status |-> "returned"]
  /\ hold_queue # <<>>
====
